---------------------------- MODULE Spec2Model ----------------------------
(***************************************************************************)
(* A model of split.py: the script that cuts README.md into one Markdown   *)
(* file per "## " section, rewrites the in-document links "](#slug)" to    *)
(* links between the new files, appends a previous/next footer to each     *)
(* section and writes the kotlinlang.org.yaml manifest.                    *)
(*                                                                         *)
(* Text is modelled character by character: a Python string is a sequence  *)
(* of one-character strings, so that slicing, startswith, the regular      *)
(* expression and str.format are computed rather than assumed.             *)
(***************************************************************************)
EXTENDS Naturals, Sequences, FiniteSets

VARIABLES
    doc,                   \* the lines of README.md, in order
    pos,                   \* 1-based index of the next line the for loop reads
    pc,                    \* where the script is
    seen_preamble,         \* split.py:4
    section_slugs,         \* split.py:5
    current_section_slug,  \* split.py:7
    sections,              \* split.py:8; current_section is the last buffer
    subsection_slugs,      \* split.py:10
    i,                     \* the index of enumerate(sections), split.py:58
    manifest,              \* the records written to kotlinlang.org.yaml
    files,                 \* the .md files written
    stdout,                \* the lines printed
    title_in,              \* the argument of a single slugify call
    slug_out,              \* and its result
    line_in,               \* the argument of a single link_regex.sub call
    pass1,                 \* its result
    pass2                  \* the result of applying link_regex.sub to pass1

segvars == <<seen_preamble, section_slugs, current_section_slug, sections,
             subsection_slugs>>
outvars == <<manifest, files, stdout>>
callvars == <<title_in, slug_out, line_in, pass1, pass2>>
vars == <<doc, pos, pc, i, segvars, outvars, callvars>>

---------------------------------------------------------------------------
(* Bounds of the model.                                                    *)

\* The longest body (the lines between the two "---" lines) of a document.
MaxBody == 4

\* The longest title handed to a single slugify call.
MaxTitleLen == 3

\* The largest number of fragments a single rewritten line is built from.
MaxFragments == 5

---------------------------------------------------------------------------
(* Characters and strings.                                                 *)

LowerSeq ==
    <<"a","b","c","d","e","f","g","h","i","j","k","l","m",
      "n","o","p","q","r","s","t","u","v","w","x","y","z">>

UpperSeq ==
    <<"A","B","C","D","E","F","G","H","I","J","K","L","M",
      "N","O","P","Q","R","S","T","U","V","W","X","Y","Z">>

DigitSeq == <<"0","1","2","3","4","5","6","7","8","9">>

Range(s) == { s[k] : k \in DOMAIN s }

\* str.isalnum of a byte string in the C locale: ASCII letters and digits.
isalnum(c) == c \in Range(LowerSeq) \cup Range(UpperSeq) \cup Range(DigitSeq)

\* str.lower, one character: ASCII upper case letters are folded.
lower(c) ==
    IF c \in Range(UpperSeq)
    THEN LowerSeq[CHOOSE k \in DOMAIN UpperSeq : UpperSeq[k] = c]
    ELSE c

\* The character class [-a-zA-Z0-9] of link_regex.
InLinkClass(c) == c = "-" \/ isalnum(c)

startswith(s, prefix) ==
    /\ Len(s) >= Len(prefix)
    /\ SubSeq(s, 1, Len(prefix)) = prefix

RECURSIVE Join(_)
\* "".join(ss)
Join(ss) == IF ss = <<>> THEN <<>> ELSE Head(ss) \o Join(Tail(ss))

RECURSIVE JoinWith(_, _)
\* sep.join(ss)
JoinWith(sep, ss) ==
    IF ss = <<>> THEN <<>>
    ELSE IF Len(ss) = 1 THEN Head(ss)
    ELSE Head(ss) \o sep \o JoinWith(sep, Tail(ss))

RECURSIVE Decimal(_)
\* The decimal digits of a natural number.
Decimal(n) ==
    IF n < 10 THEN <<DigitSeq[n + 1]>>
    ELSE Decimal(n \div 10) \o <<DigitSeq[(n % 10) + 1]>>

\* "{0:02}".format(n): at least two digits, padded with zeros.
Format02(n) == IF n < 10 THEN <<"0">> \o Decimal(n) ELSE Decimal(n)

HR == <<"-","-","-","\n">>
NoneSlug == <<"N","o","n","e">>
IntroTitle == <<"I","n","t","r","o","d","u","c","t","i","o","n">>
IntroSlug == <<"i","n","t","r","o","d","u","c","t","i","o","n">>
ContentsTitle == <<"C","o","n","t","e","n","t","s">>
DotHtml == <<".","h","t","m","l">>
DotMd == <<".","m","d">>

\* The fixed text written at the head of every file; one symbol stands for
\* the whole notice, which no operation inspects.
copyright_notice == <<"<copyright_notice>">>

---------------------------------------------------------------------------
(* slugify                                                                 *)

SlugifyNoLower(title) ==
    LET kept == SelectSeq(title, LAMBDA c : isalnum(c) \/ c \in {" ", "-"})
    IN  [k \in DOMAIN kept |-> IF kept[k] = " " THEN "-" ELSE kept[k]]

slugify(title) ==
    LET kept == SelectSeq(title, LAMBDA c : isalnum(c) \/ c \in {" ", "-"})
        replaced == [k \in DOMAIN kept |-> IF kept[k] = " " THEN "-" ELSE kept[k]]
    IN  [k \in DOMAIN replaced |-> lower(replaced[k])]

---------------------------------------------------------------------------
(* link_regex and substitute_link                                          *)

RECURSIVE ClassRunEnd(_, _)
\* The first position at or after p that holds no character of the class:
\* where the greedy [-a-zA-Z0-9]+ stops.
ClassRunEnd(s, p) ==
    IF p <= Len(s) /\ InLinkClass(s[p]) THEN ClassRunEnd(s, p + 1) ELSE p

\* link_regex matches at p: "](#", one or more class characters, ")".
MatchAt(s, p) ==
    /\ p + 3 <= Len(s)
    /\ s[p] = "]" /\ s[p + 1] = "(" /\ s[p + 2] = "#"
    /\ LET e == ClassRunEnd(s, p + 3)
       IN  e > p + 3 /\ e <= Len(s) /\ s[e] = ")"

\* match.group(1) and the position of the closing parenthesis.
MatchGroup(s, p) == SubSeq(s, p + 3, ClassRunEnd(s, p + 3) - 1)
MatchEnd(s, p) == ClassRunEnd(s, p + 3)

SubstituteKeepAnchor(link) ==
    IF link \in section_slugs
    THEN [text |-> <<"]","(">> \o link \o DotHtml \o <<")">>, printed |-> <<>>]
    ELSE IF link \in DOMAIN subsection_slugs
    THEN [text |-> <<"]","(","#">> \o subsection_slugs[link] \o <<")">>,
          printed |-> <<>>]
    ELSE [text |-> link,
          printed |-> << <<"U","n","k","n","o","w","n",":"," ">> \o link >>]

\* The replacement text for one match and what is printed for it.
substitute_link(link) ==
    IF link \in section_slugs
    THEN [text |-> <<"]","(">> \o link \o DotHtml \o <<")">>, printed |-> <<>>]
    ELSE IF link \in DOMAIN subsection_slugs
    THEN [text |-> <<"]","(">> \o subsection_slugs[link] \o DotHtml
                     \o <<"#">> \o link \o <<")">>,
          printed |-> <<>>]
    ELSE [text |-> link,
          printed |-> << <<"U","n","k","n","o","w","n",":"," ">> \o link >>]

RECURSIVE SubFrom(_, _)
\* link_regex.sub(substitute_link, s) from position p on: the matches are
\* found left to right, do not overlap, and a replacement is not rescanned.
SubFrom(s, p) ==
    IF p > Len(s) THEN [text |-> <<>>, printed |-> <<>>]
    ELSE IF MatchAt(s, p)
    THEN LET r == substitute_link(MatchGroup(s, p))
             rest == SubFrom(s, MatchEnd(s, p) + 1)
         IN  [text |-> r.text \o rest.text, printed |-> r.printed \o rest.printed]
    ELSE LET rest == SubFrom(s, p + 1)
         IN  [text |-> <<s[p]>> \o rest.text, printed |-> rest.printed]

link_regex_sub(s) == SubFrom(s, 1)

---------------------------------------------------------------------------
(* The segmentation loop, one line at a time.                              *)

\* The globals the loop reads and writes, as one value.
SegInit ==
    [seen_preamble |-> FALSE,
     section_slugs |-> {},
     current_section_slug |-> NoneSlug,
     sections |-> <<>>,
     subsection_slugs |-> [k \in {} |-> NoneSlug]]

\* line[3:-1]
SectionTitle(line) == SubSeq(line, 4, Len(line) - 1)

\* line.replace("#", "")[1:-1]
SubsectionTitle(line) ==
    LET r == SelectSeq(line, LAMBDA c : c # "#")
    IN  SubSeq(r, 2, Len(r) - 1)

IsContentsNever(title) == FALSE

\* title == "Contents"
IsContents(title) == title = ContentsTitle

\* not current_section: the buffer of the last section is empty.
CurrentEmpty(st) == st.sections[Len(st.sections)].lines = <<>>

\* The branch of the if/elif chain that a line takes.
Branch(st, line) ==
    IF ~st.seen_preamble
    THEN (IF line = HR THEN "open" ELSE "skip")
    ELSE IF line = HR THEN "break"
    ELSE IF startswith(line, <<"#","#"," ">>)
    THEN (IF IsContents(SectionTitle(line)) THEN "contents" ELSE "section")
    ELSE IF CurrentEmpty(st) /\ line = <<"\n">> THEN "blank"
    ELSE IF startswith(line, <<"#">>) THEN "subsection"
    ELSE "text"

\* current_section.append(x)
AppendToCurrent(secs, x) ==
    [secs EXCEPT ![Len(secs)].lines = Append(@, x)]

\* d[k] = v
DictSet(d, k, v) ==
    [x \in (DOMAIN d) \cup {k} |-> IF x = k THEN v ELSE d[x]]

\* The body of the for loop for one line (the break leaves the globals alone).
SegStep(st, line) ==
    LET b == Branch(st, line) IN
    IF b = "open"
    THEN [st EXCEPT !.seen_preamble = TRUE,
                    !.sections = Append(@, [title |-> IntroTitle,
                                            slug |-> IntroSlug,
                                            lines |-> <<>>])]
    ELSE IF b = "section"
    THEN LET title == SectionTitle(line)
             slug == slugify(title)
         IN  [st EXCEPT !.current_section_slug = slug,
                        !.section_slugs = @ \cup {slug},
                        !.sections = Append(@, [title |-> title,
                                                slug |-> slug,
                                                lines |-> <<>>])]
    ELSE IF b = "contents" \/ b = "text"
    THEN [st EXCEPT !.sections = AppendToCurrent(@, line)]
    ELSE IF b = "subsection"
    THEN [st EXCEPT !.sections = AppendToCurrent(@, Tail(line)),
                    !.subsection_slugs =
                        DictSet(@, slugify(SubsectionTitle(line)),
                                st.current_section_slug)]
    ELSE st

BreakNever(st, line) == FALSE

\* The loop leaves at the second "---" line.
Break(st, line) == Branch(st, line) = "break"

RECURSIVE SegmentFrom(_, _)
\* The whole loop over the lines d, started in st.
SegmentFrom(st, d) ==
    IF d = <<>> \/ Break(st, Head(d)) THEN st
    ELSE SegmentFrom(SegStep(st, Head(d)), Tail(d))

Segment(d) == SegmentFrom(SegInit, d)

Globals ==
    [seen_preamble |-> seen_preamble,
     section_slugs |-> section_slugs,
     current_section_slug |-> current_section_slug,
     sections |-> sections,
     subsection_slugs |-> subsection_slugs]

SetGlobals(st) ==
    /\ seen_preamble' = st.seen_preamble
    /\ section_slugs' = st.section_slugs
    /\ current_section_slug' = st.current_section_slug
    /\ sections' = st.sections
    /\ subsection_slugs' = st.subsection_slugs

---------------------------------------------------------------------------
(* The emission loop, one section at a time.                               *)

FilenameUnpadded(n, slug) == Decimal(n) \o <<"-">> \o slug \o DotMd

\* "{0:02}-{1}.md".format(i, slug)
Filename(n, slug) == Format02(n) \o <<"-">> \o slug \o DotMd

\* u"[← Previous: {0}]({1}.html)": "<-" stands for the character U+2190.
PreviousLink(sec) ==
    <<"[", "<-", " ","P","r","e","v","i","o","u","s",":"," ">> \o sec.title
        \o <<"]","(">> \o sec.slug \o DotHtml \o <<")">>

\* u"[Next: {0} →]({1}.html)": "->" stands for the character U+2192.
NextLink(sec) ==
    <<"[","N","e","x","t",":"," ">> \o sec.title \o <<" ", "->", "]","(">>
        \o sec.slug \o DotHtml \o <<")">>

HasPreviousFromSecond(n) == n > 1

\* i > 0
HasPrevious(n) == n > 0

\* i < len(sections) - 1
HasNext(n, secs) == n + 1 < Len(secs)

\* The list navigation of iteration n (0-based).
Navigation(n, secs) ==
    (IF HasPrevious(n) THEN <<PreviousLink(secs[n])>> ELSE <<>>)
        \o (IF HasNext(n, secs) THEN <<NextLink(secs[n + 2])>> ELSE <<>>)

\* u"\n\n---\n\n{0}\n".format(" | ".join(navigation))
Footer(navigation) ==
    <<"\n","\n","-","-","-","\n","\n">>
        \o JoinWith(<<" ","|"," ">>, navigation) \o <<"\n">>

RECURSIVE PrintedBy(_)
\* What rewriting the lines ls prints, in order.
PrintedBy(ls) ==
    IF ls = <<>> THEN <<>>
    ELSE link_regex_sub(Head(ls)).printed \o PrintedBy(Tail(ls))

---------------------------------------------------------------------------
(* The documents the script is run on.                                     *)

SecAlpha == <<"#","#"," ","A","l","p","h","a","\n">>
SecBeta == <<"#","#"," ","B","e","t","a","\n">>
SecContents == <<"#","#"," ","C","o","n","t","e","n","t","s","\n">>
ContentA == <<"c","o","n","t","e","n","t"," ","A","\n">>
SeeAlpha == <<"s","e","e"," ","[","x","]","(","#","a","l","p","h","a",")","\n">>
Blank == <<"\n">>
SubDetail == <<"#","#","#"," ","D","e","t","a","i","l","\n">>
TopAlpha == <<"#"," ","A","l","p","h","a","\n">>
SeeNowhere ==
    <<"s","e","e"," ","[","x","]","(","#","n","o","w","h","e","r","e",")","\n">>
SeeIntro ==
    <<"[","i","]","(","#","i","n","t","r","o","d","u","c","t","i","o","n",")","\n">>
SeeBoth ==
    <<"[","a","]","(","#","a","l","p","h","a",")"," ",
      "[","d","]","(","#","d","e","t","a","i","l",")","\n">>
TitleLine == <<"#"," ","K","o","t","l","i","n","\n">>

\* All sequences over pool of length at most n.
SeqsUpTo(pool, n) == UNION { [1..k -> pool] : k \in 0..n }

\* What precedes the first "---" line.
Preambles == { <<>>, <<TitleLine>>, <<SecBeta>> }

\* What follows the body: nothing (no closing "---"), the closing line, or
\* the closing line and more lines.
Endings ==
    { <<>>, <<HR>>, <<HR, SecBeta>>, <<HR, SubDetail, SeeAlpha, HR, ContentA>> }

BodyPool == { SecAlpha, SecBeta, SecContents, ContentA, SeeAlpha }

Docs ==
    { pre \o <<HR>> \o body \o end :
        pre \in Preambles, body \in SeqsUpTo(BodyPool, MaxBody), end \in Endings }
    \cup Preambles

\* Documents that exercise the link rewriter: headings of other levels,
\* blank lines, links that resolve and links that do not.
LinkPool ==
    { SecAlpha, SubDetail, TopAlpha, Blank, SeeBoth, SeeNowhere, SeeIntro }

LinkDocs ==
    { <<HR>> \o body \o end :
        body \in SeqsUpTo(LinkPool, MaxBody), end \in { <<>>, <<HR>> } }

\* The titles of the single slugify calls; "0xC3" stands for a byte
\* outside ASCII.
TitleChars == { "a", "B", "7", " ", "-", "_", "!", "0xC3" }

Titles == SeqsUpTo(TitleChars, MaxTitleLen)

\* The lines of the single link_regex.sub calls, built from fragments.
Fragments == { <<"]","(","#">>, <<"a">>, <<"b">>, <<")">>, <<"[","x">> }

FragmentLines == { Join(fs) : fs \in SeqsUpTo(Fragments, MaxFragments) }

\* Registries the segmentation loop can leave behind: the owner of a
\* subsection is a section slug, or None (a subsection of the Introduction);
\* the slug of a title without letters or digits is empty.
Registries ==
    LET a == <<"a">>
        b == <<"b">>
    IN  { [sec |-> {}, sub |-> [k \in {} |-> NoneSlug]],
          [sec |-> {}, sub |-> [k \in {b} |-> NoneSlug]],
          [sec |-> {a}, sub |-> [k \in {} |-> NoneSlug]],
          [sec |-> {a}, sub |-> [k \in {b} |-> a]],
          [sec |-> {a}, sub |-> [k \in {a, b} |-> IF k = a THEN a ELSE NoneSlug]],
          [sec |-> {<<>>}, sub |-> [k \in {b} |-> <<>>]] }

---------------------------------------------------------------------------
(* The script as a state machine.                                          *)

InitOn(documents) ==
    /\ doc \in documents
    /\ pos = 1
    /\ pc = "read"
    /\ i = 0
    /\ seen_preamble = SegInit.seen_preamble
    /\ section_slugs = SegInit.section_slugs
    /\ current_section_slug = SegInit.current_section_slug
    /\ sections = SegInit.sections
    /\ subsection_slugs = SegInit.subsection_slugs
    /\ manifest = <<>>
    /\ files = <<>>
    /\ stdout = <<>>
    /\ title_in = <<>> /\ slug_out = <<>>
    /\ line_in = <<>> /\ pass1 = <<>> /\ pass2 = <<>>

Init == InitOn(Docs)

\* One iteration of "for line in f".
ReadLine ==
    /\ pc = "read"
    /\ pos <= Len(doc)
    /\ SetGlobals(SegStep(Globals, doc[pos]))
    /\ pos' = pos + 1
    /\ pc' = IF Break(Globals, doc[pos]) THEN "emit" ELSE "read"
    /\ UNCHANGED <<doc, i, outvars, callvars>>

\* The file is exhausted: the for loop ends without a break.
EndOfFile ==
    /\ pc = "read"
    /\ pos > Len(doc)
    /\ pc' = "emit"
    /\ UNCHANGED <<doc, pos, i, segvars, outvars, callvars>>

\* One iteration of "for i, (title, slug, section) in enumerate(sections)".
EmitSection ==
    /\ pc = "emit"
    /\ i < Len(sections)
    /\ LET sec == sections[i + 1]
           filename == Filename(i, sec.slug)
           rewritten == [j \in DOMAIN sec.lines |-> link_regex_sub(sec.lines[j]).text]
           final == Append(rewritten, Footer(Navigation(i, sections)))
       IN  /\ manifest' = Append(manifest, [md |-> filename,
                                            url |-> sec.slug \o DotHtml,
                                            title |-> sec.title])
           /\ stdout' = stdout \o PrintedBy(sec.lines)
           /\ sections' = [sections EXCEPT ![i + 1].lines = final]
           /\ files' = Append(files, [name |-> filename,
                                      content |-> copyright_notice \o Join(final)])
    /\ i' = i + 1
    /\ UNCHANGED <<doc, pos, pc, seen_preamble, section_slugs,
                   current_section_slug, subsection_slugs, callvars>>

\* enumerate(sections) is exhausted: the script ends.
Finish ==
    /\ pc = "emit"
    /\ i = Len(sections)
    /\ pc' = "done"
    /\ UNCHANGED <<doc, pos, i, segvars, outvars, callvars>>

Next == ReadLine \/ EndOfFile \/ EmitSection \/ Finish

Spec == Init /\ [][Next]_vars

\* The same script on the documents that exercise the link rewriter.
InitLinks == InitOn(LinkDocs)

SpecLinks == InitLinks /\ [][Next]_vars

---------------------------------------------------------------------------
(* slugify alone, on arbitrary titles.                                     *)

InitSlug ==
    /\ pc = "slugify"
    /\ title_in \in Titles
    /\ slug_out = <<>>
    /\ doc = <<>> /\ pos = 1 /\ i = 0
    /\ seen_preamble = SegInit.seen_preamble
    /\ section_slugs = SegInit.section_slugs
    /\ current_section_slug = SegInit.current_section_slug
    /\ sections = SegInit.sections
    /\ subsection_slugs = SegInit.subsection_slugs
    /\ manifest = <<>> /\ files = <<>> /\ stdout = <<>>
    /\ line_in = <<>> /\ pass1 = <<>> /\ pass2 = <<>>

CallSlugify ==
    /\ pc = "slugify"
    /\ slug_out' = slugify(title_in)
    /\ pc' = "slugified"
    /\ UNCHANGED <<doc, pos, i, segvars, outvars, title_in, line_in, pass1, pass2>>

NextSlug == CallSlugify

SpecSlug == InitSlug /\ [][NextSlug]_vars

---------------------------------------------------------------------------
(* link_regex.sub alone, applied twice to one line under fixed registries. *)

InitRewrite ==
    /\ pc = "rewrite"
    /\ line_in \in FragmentLines
    /\ \E r \in Registries :
          /\ section_slugs = r.sec
          /\ subsection_slugs = r.sub
    /\ pass1 = <<>> /\ pass2 = <<>>
    /\ doc = <<>> /\ pos = 1 /\ i = 0
    /\ seen_preamble = TRUE
    /\ current_section_slug = NoneSlug
    /\ sections = <<>>
    /\ manifest = <<>> /\ files = <<>> /\ stdout = <<>>
    /\ title_in = <<>> /\ slug_out = <<>>

FirstPass ==
    /\ pc = "rewrite"
    /\ pass1' = link_regex_sub(line_in).text
    /\ stdout' = stdout \o link_regex_sub(line_in).printed
    /\ pc' = "rewritten"
    /\ UNCHANGED <<doc, pos, i, segvars, manifest, files,
                   title_in, slug_out, line_in, pass2>>

SecondPass ==
    /\ pc = "rewritten"
    /\ pass2' = link_regex_sub(pass1).text
    /\ stdout' = stdout \o link_regex_sub(pass1).printed
    /\ pc' = "rewritten_twice"
    /\ UNCHANGED <<doc, pos, i, segvars, manifest, files,
                   title_in, slug_out, line_in, pass1>>

NextRewrite == FirstPass \/ SecondPass

SpecRewrite == InitRewrite /\ [][NextRewrite]_vars

---------------------------------------------------------------------------
(* Properties of the segmentation loop.                                    *)

SegmentationOver == pc \in {"emit", "done"}

\* The positions of the "---" lines of d.
RulePositions(d) == { k \in DOMAIN d : d[k] = HR }

Min(S) == CHOOSE x \in S : \A y \in S : x <= y

\* The first "---" line, and the first one after it.
OpeningAt(d) == Min(RulePositions(d))
ClosingAt(d) == Min({ k \in RulePositions(d) : k > OpeningAt(d) })

\* d has an opening and a closing "---" line.
WellFormed(d) == Cardinality(RulePositions(d)) >= 2

\* A "## " line whose title is not "Contents".
IsCountedHeading(line) ==
    /\ Len(line) >= 3
    /\ line[1] = "#" /\ line[2] = "#" /\ line[3] = " "
    /\ SubSeq(line, 4, Len(line) - 1) # <<"C","o","n","t","e","n","t","s">>

CountedHeadings(d, from, to) ==
    Cardinality({ k \in from..to : IsCountedHeading(d[k]) })

FileNames == { files[k].name : k \in DOMAIN files }

\* C1, as stated: for a document with an opening and a closing "---" line,
\* the script produces one section, one manifest record and one file per
\* "## " heading of the document other than "## Contents", plus one.
C1_CountsEveryHeading ==
    (pc = "done" /\ WellFormed(doc)) =>
        /\ Len(sections) = 1 + CountedHeadings(doc, 1, Len(doc))
        /\ Len(manifest) = Len(sections)
        /\ Cardinality(FileNames) = Len(sections)

\* C1, amended: the headings counted are those between the opening and the
\* closing "---" line; a "## " line before the first or after the second
\* opens no section.
C1_CountsDelimitedHeadings ==
    (pc = "done" /\ WellFormed(doc)) =>
        /\ Len(sections)
             = 1 + CountedHeadings(doc, OpeningAt(doc) + 1, ClosingAt(doc) - 1)
        /\ Len(manifest) = Len(sections)
        /\ Cardinality(FileNames) = Len(sections)

\* C1's case: a finished run on a delimited document that holds a
\* "## Contents" heading and two section headings between the delimiters
\* and a "## " heading outside them.
C1_Witness ==
    /\ pc = "done" /\ WellFormed(doc)
    /\ \E k \in OpeningAt(doc)+1 .. ClosingAt(doc)-1 : doc[k] = SecContents
    /\ CountedHeadings(doc, OpeningAt(doc) + 1, ClosingAt(doc) - 1) = 2
    /\ CountedHeadings(doc, 1, Len(doc)) = 3
    /\ Len(files) = 3

\* C9: once the closing "---" line is consumed nothing after it is read:
\* the section list, the buffers not yet emitted and both registries are
\* those of the document cut after that line.
C9_ClosedIsTerminal ==
    (SegmentationOver /\ WellFormed(doc)) =>
        LET cut == Segment(SubSeq(doc, 1, ClosingAt(doc)))
        IN  /\ pos = ClosingAt(doc) + 1
            /\ section_slugs = cut.section_slugs
            /\ subsection_slugs = cut.subsection_slugs
            /\ current_section_slug = cut.current_section_slug
            /\ Len(sections) = Len(cut.sections)
            /\ \A k \in DOMAIN sections :
                 /\ sections[k].title = cut.sections[k].title
                 /\ sections[k].slug = cut.sections[k].slug
                 /\ k > i => sections[k].lines = cut.sections[k].lines

\* C9's case: the loop has ended on a document that goes on after its
\* closing line with a subsection heading, a link and another "---".
C9_Witness ==
    /\ pc = "emit" /\ i = 0 /\ WellFormed(doc)
    /\ ClosingAt(doc) + 4 = Len(doc)
    /\ doc[ClosingAt(doc) + 1] = SubDetail
    /\ doc[ClosingAt(doc) + 3] = HR
    /\ Len(sections) >= 2

\* C10: when segmentation is over the section-slug set holds the slug of
\* every section of the list, the Introduction's included.
C10_EverySectionSlugRegistered ==
    SegmentationOver =>
        \A k \in DOMAIN sections : sections[k].slug \in section_slugs

\* C8: a heading line of another level consumed inside a section registers
\* its slug as belonging to the section whose buffer receives the line.
C8_SubsectionOwnedByCurrentSection ==
    [][ (pc = "read" /\ pos <= Len(doc)
            /\ Branch(Globals, doc[pos]) = "subsection")
        => /\ sections'[Len(sections)].lines
                = Append(sections[Len(sections)].lines, Tail(doc[pos]))
           /\ subsection_slugs'[slugify(SubsectionTitle(doc[pos]))]
                = sections[Len(sections)].slug ]_vars

---------------------------------------------------------------------------
(* Properties of the emission loop.                                        *)

\* The footer the claim describes for the k-th of the sections secs.
DescribedFooter(k, secs) ==
    LET n == Len(secs)
        nav == IF n = 1 THEN <<>>
               ELSE IF k = 1 THEN NextLink(secs[2])
               ELSE IF k = n THEN PreviousLink(secs[n - 1])
               ELSE PreviousLink(secs[k - 1]) \o <<" ","|"," ">>
                        \o NextLink(secs[k + 1])
    IN  <<"\n","\n","-","-","-","\n","\n">> \o nav \o <<"\n">>

\* C4: every emitted section ends with a footer that links to the previous
\* section exactly when there is one and to the next exactly when there is
\* one, the two joined by " | "; a single section gets an empty line.
C4_NavigationFooter ==
    SegmentationOver =>
        \A k \in 1..i :
            /\ sections[k].lines # <<>>
            /\ sections[k].lines[Len(sections[k].lines)]
                 = DescribedFooter(k, sections)

\* C4's case: a finished run with a first, a middle and a last section.
C4_Witness ==
    /\ pc = "done" /\ Len(sections) >= 3 /\ i = Len(sections)

IsFooter(line) ==
    /\ Len(line) >= 7
    /\ SubSeq(line, 1, 7) = <<"\n","\n","-","-","-","\n","\n">>

\* The input of the end-to-end example, with and without a line of preamble.
ExampleDocs ==
    { <<HR, SecAlpha, ContentA, SecBeta, SeeAlpha, HR>>,
      <<TitleLine, HR, SecAlpha, ContentA, SecBeta, SeeAlpha, HR>> }

SeeAlphaRewritten ==
    <<"s","e","e"," ","[","x","]","(","a","l","p","h","a",".","h","t","m","l",")","\n">>

\* What the example's run leaves behind, but for the Introduction's buffer.
ExampleOutcome ==
    /\ Len(sections) = 3
    /\ sections[1].title = IntroTitle /\ sections[1].slug = IntroSlug
    /\ sections[2].title = <<"A","l","p","h","a">>
    /\ sections[2].slug = <<"a","l","p","h","a">>
    /\ sections[3].title = <<"B","e","t","a">>
    /\ sections[3].slug = <<"b","e","t","a">>
    /\ Len(sections[2].lines) = 2
    /\ sections[2].lines[1] = ContentA /\ IsFooter(sections[2].lines[2])
    /\ Len(sections[3].lines) = 2
    /\ sections[3].lines[1] = SeeAlphaRewritten /\ IsFooter(sections[3].lines[2])
    /\ Len(manifest) = 3
    /\ manifest[1].md
         = <<"0","0","-","i","n","t","r","o","d","u","c","t","i","o","n",".","m","d">>
    /\ manifest[2].md = <<"0","1","-","a","l","p","h","a",".","m","d">>
    /\ manifest[3].md = <<"0","2","-","b","e","t","a",".","m","d">>

\* C6, as stated: the example ends with an empty Introduction buffer.
C6_ExampleIntroductionEmpty ==
    (pc = "done" /\ doc \in ExampleDocs) =>
        /\ ExampleOutcome
        /\ sections[1].lines = <<>>

\* C6, amended: the example ends with the Introduction's buffer holding its
\* own navigation footer, like the two other sections.
C6_ExampleIntroductionFooter ==
    (pc = "done" /\ doc \in ExampleDocs) =>
        /\ ExampleOutcome
        /\ Len(sections[1].lines) = 1 /\ IsFooter(sections[1].lines[1])

\* C6's case: the run on the example has finished.
C6_Witness == pc = "done" /\ doc \in ExampleDocs /\ Len(files) = 3

\* The targets of all the links of s are known to the registries.
AllLinksResolve(s) ==
    \A p \in DOMAIN s :
        MatchAt(s, p) =>
            MatchGroup(s, p) \in section_slugs \cup DOMAIN subsection_slugs

\* The replacements the claim allows for a link to t: the section's own
\* document, else a fragment of a document of some section of the list.
DescribedTargets(t) ==
    IF t \in section_slugs
    THEN { <<"]","(">> \o t \o DotHtml \o <<")">> }
    ELSE { <<"]","(">> \o sections[k].slug \o DotHtml \o <<"#">> \o t \o <<")">> :
             k \in DOMAIN sections }

RECURSIVE Conforms(_, _, _, _)
\* out, from q on, is s, from p on, with every link replaced as described.
Conforms(s, p, out, q) ==
    IF p > Len(s) THEN q > Len(out)
    ELSE IF MatchAt(s, p)
    THEN \E r \in DescribedTargets(MatchGroup(s, p)) :
            /\ q + Len(r) - 1 <= Len(out)
            /\ SubSeq(out, q, q + Len(r) - 1) = r
            /\ Conforms(s, MatchEnd(s, p) + 1, out, q + Len(r))
    ELSE /\ q <= Len(out)
         /\ out[q] = s[p]
         /\ Conforms(s, p + 1, out, q + 1)

\* C2: a link to a section slug becomes a link to that section's document;
\* otherwise a link to a subsection slug becomes a link to the owning
\* section's document with the slug as its fragment (here only: to the
\* document of one of the sections).
C2_LinksResolveToSections ==
    [][ (pc = "emit" /\ i < Len(sections))
        => \A j \in DOMAIN sections[i + 1].lines :
              AllLinksResolve(sections[i + 1].lines[j])
              => Conforms(sections[i + 1].lines[j], 1,
                          sections'[i + 1].lines[j], 1) ]_vars

\* The number of links of the lines ls whose target is unknown.
RECURSIVE UnknownLinks(_)
UnknownLinks(ls) ==
    IF ls = <<>> THEN 0
    ELSE Cardinality({ p \in DOMAIN Head(ls) :
                         /\ MatchAt(Head(ls), p)
                         /\ MatchGroup(Head(ls), p) \notin
                              section_slugs \cup DOMAIN subsection_slugs })
         + UnknownLinks(Tail(ls))

\* C3: the line "see [x](#nowhere)", nowhere being unknown, is rewritten to
\* "see x", and one diagnostic is printed for each unknown link.
C3_UnknownLinkKeepsText ==
    [][ (pc = "emit" /\ i < Len(sections))
        => /\ Len(stdout') = Len(stdout) + UnknownLinks(sections[i + 1].lines)
           /\ \A j \in DOMAIN sections[i + 1].lines :
                (/\ sections[i + 1].lines[j] = SeeNowhere
                 /\ ~AllLinksResolve(SeeNowhere))
                => sections'[i + 1].lines[j] = <<"s","e","e"," ","x","\n">> ]_vars

---------------------------------------------------------------------------
(* Properties of slugify and of link_regex.sub.                            *)

SlugAlphabet == Range(LowerSeq) \cup Range(DigitSeq) \cup {"-"}

\* C7: the slug holds only characters of [a-z0-9-]; it is the title with
\* every character but letters, digits, spaces and hyphens dropped, every
\* space turned into a hyphen and every letter in lower case.
C7_SlugAlphabetAndRule ==
    pc = "slugified" =>
        LET kept == SelectSeq(title_in,
                LAMBDA c : c \in Range(LowerSeq) \cup Range(UpperSeq)
                                 \cup Range(DigitSeq) \cup {" ", "-"})
        IN  /\ \A k \in DOMAIN slug_out : slug_out[k] \in SlugAlphabet
            /\ Len(slug_out) = Len(kept)
            /\ \A k \in DOMAIN kept :
                 /\ kept[k] = " " => slug_out[k] = "-"
                 /\ kept[k] \in SlugAlphabet => slug_out[k] = kept[k]
                 /\ \A u \in DOMAIN UpperSeq :
                      kept[k] = UpperSeq[u] => slug_out[k] = LowerSeq[u]

\* C7's case: a title with an upper case letter, a character that is
\* dropped and a space has been slugified.
C7_Witness ==
    /\ pc = "slugified"
    /\ title_in = <<"B", "!", " ">>
    /\ slug_out = <<"b", "-">>

=============================================================================
